---- MODULE Spec2Model ----
(***************************************************************************)
(* Safety pipelines of src/llm_apis/safety.                                 *)
(*                                                                         *)
(*   Spec          ProductionSafetyPipeline.validate_input, one layer per  *)
(*                 step (safety_pipeline_multilayer.py).                   *)
(*   SpecRedaction SafetyPipeline.check_input (safety_pipeline.py) and     *)
(*                 AWSPIIDetector.redact_pii (aws_pii_detector.py), each   *)
(*                 called again on its own output.                         *)
(*   SpecSpans     AWSPIIDetector.redact_pii on any answer of the detector *)
(*                 whose entity spans do not overlap.                      *)
(*                                                                         *)
(* A text of the multi-layer pipeline is a sequence of tokens: a plain     *)
(* word "w" or one PII item ("email", "phone", "ip"); len(text) is the     *)
(* number of tokens.  The DLP, Presidio and OpenAI backends are external   *)
(* services: a call either raises or answers as the request configured in  *)
(* the source asks (info types, score threshold, placeholder).  Scores are *)
(* in tenths (0.5 is 5).                                                   *)
(*                                                                         *)
(* A text of check_input and redact_pii is a sequence of characters, so    *)
(* that EMAIL_PATTERN and the offset arithmetic act as in the source.      *)
(***************************************************************************)
EXTENDS Integers, Sequences, FiniteSets, TLC

\* ---------------------------------------------------------------- bounds
MaxTextLen == 3

MaxPieces == 4

MaxSpanTextLen == 4

MaxEntities == 2

\* ------------------------------------------------------------ input sets
TextTokens == {"w", "email", "phone", "ip"}

Texts == UNION {[1..n -> TextTokens] : n \in 0..MaxTextLen}

MaxLengths == {1, 2}

Categories == {"harassment", "hate"}

Scores == {5, 9}

\* The layers of validate_input, in source order, and its terminal states.
Layers == <<"LENGTH_CHECK", "PRIMARY_PII", "BACKUP_PII", "MODERATION">>

LayerSet == {Layers[i] : i \in 1..Len(Layers)}

LayerIndex(l) == CHOOSE i \in 1..Len(Layers) : Layers[i] = l

\* ------------------------------------------------------------- variables
VARIABLES
  self,             \* use_google_dlp, use_presidio, use_openai_moderation
  text, max_length, block_on_pii, block_on_harmful,   \* arguments
  details,          \* the details dict of the run
  pc,               \* layer about to run, or PASSED / BLOCKED / RAISED
  result,           \* <<>> until a return; then <<[is_safe, processed_text, details]>>
  calls,            \* history: backend calls made, in order
  entered,          \* history: layers whose body ran, in order
  mod_response,     \* history: <<>> or <<the classifier backend's answer>>
  raised            \* history: the backend call that raised, or "none"

\* check_input and redact_pii
VARIABLES
  prog,             \* the function under call: validate_input, check_input, redact_pii
  input,            \* the text argument of the current call
  san,              \* check_input: the local `text` after step 1
  ci_pc,            \* check_input: SANITIZE, MODERATE, RETURNED, RAISED
  ci_result,        \* check_input: <<>> or <<[is_safe, text, meta]>>
  mod_input,        \* history: <<>> or <<the text given to the classifier>>
  mod_flagged,      \* history: <<>> or <<results[0].flagged of that call>>
  outputs,          \* history: the texts returned by the calls so far, in order
  aws_response      \* redact_pii: <<>> or the Entities the detector answered

pvars == <<self, text, max_length, block_on_pii, block_on_harmful, details, pc,
           result, calls, entered, mod_response, raised>>

rvars == <<input, san, ci_pc, ci_result, mod_input, mod_flagged, outputs, aws_response>>

vars == <<prog, pvars, rvars>>

\* ------------------------------------------------- Google DLP (primary)
DLPInfoType(tok) ==
  CASE tok = "email" -> "EMAIL_ADDRESS"
    [] tok = "phone" -> "PHONE_NUMBER"
    [] tok = "ip"    -> "IP_ADDRESS"
    [] OTHER         -> "NONE"

DetectInfoTypes ==
  {"EMAIL_ADDRESS", "PHONE_NUMBER", "CREDIT_CARD_NUMBER",
   "US_SOCIAL_SECURITY_NUMBER", "PERSON_NAME", "STREET_ADDRESS",
   "DATE_OF_BIRTH", "IP_ADDRESS", "PASSPORT", "DRIVER_LICENSE_NUMBER"}

RedactInfoTypes ==
  {"EMAIL_ADDRESS", "PHONE_NUMBER", "CREDIT_CARD_NUMBER",
   "US_SOCIAL_SECURITY_NUMBER", "PERSON_NAME", "STREET_ADDRESS"}

DLPPlaceholder == "[REDACTED]"

\* inspect_config asks for no include_quote, so f.quote is empty.
detect_pii_dlp(t) ==
  LET hits == SelectSeq(t, LAMBDA tok : DLPInfoType(tok) \in DetectInfoTypes)
      findings == [i \in 1..Len(hits) |->
                     [type |-> DLPInfoType(hits[i]), quote |-> "",
                      likelihood |-> "LIKELY"]]
  IN  [has_pii |-> Len(findings) > 0, findings |-> findings]

redact_pii_dlp(t) ==
  [i \in 1..Len(t) |->
     IF DLPInfoType(t[i]) \in RedactInfoTypes THEN DLPPlaceholder ELSE t[i]]

\* --------------------------------------------------- Presidio (backup)
PresidioEntityType(tok) ==
  CASE tok = "email" -> "EMAIL_ADDRESS"
    [] tok = "phone" -> "PHONE_NUMBER"
    [] tok = "ip"    -> "IP_ADDRESS"
    [] OTHER         -> "NONE"

\* Confidence of the recognizer, in tenths.
PresidioScore(tok) ==
  CASE tok = "email" -> 10
    [] tok = "phone" -> 4
    [] tok = "ip"    -> 6
    [] OTHER         -> 0

PresidioScoreThreshold == 5

PresidioDefaultThreshold == 0

\* AnalyzerEngine.analyze: the recognized items whose score reaches the threshold.
presidio_analyze(t, score_threshold) ==
  LET idx == {i \in 1..Len(t) : /\ PresidioEntityType(t[i]) # "NONE"
                                /\ PresidioScore(t[i]) >= score_threshold}
      nth[k \in 0..Cardinality(idx)] ==
        IF k = 0 THEN 0 ELSE CHOOSE i \in idx : i > nth[k - 1] /\ \A j \in idx : j > nth[k - 1] => i <= j
  IN  [k \in 1..Cardinality(idx) |->
         [entity_type |-> PresidioEntityType(t[nth[k]]), start |-> nth[k],
          score |-> PresidioScore(t[nth[k]])]]

\* AnonymizerEngine.anonymize with the default operator: <ENTITY_TYPE>.
presidio_anonymize(t, analyzer_results) ==
  [i \in 1..Len(t) |->
     IF \E k \in 1..Len(analyzer_results) : analyzer_results[k].start = i
     THEN "<" \o PresidioEntityType(t[i]) \o ">"
     ELSE t[i]]

detect_pii_presidio(t) ==
  LET results == presidio_analyze(t, PresidioScoreThreshold)
      findings == [k \in 1..Len(results) |->
                     [type |-> results[k].entity_type, text |-> t[results[k].start],
                      score |-> results[k].score]]
  IN  [has_pii |-> Len(findings) > 0, findings |-> findings]

redact_pii_presidio(t) ==
  presidio_anonymize(t, presidio_analyze(t, PresidioDefaultThreshold))

\* ------------------------------------------- OpenAI moderation (classifier)
ModerationThreshold == 5

\* A backend answer: its own aggregate verdict and a score per category.
ModerationResponses == [flagged : BOOLEAN, category_scores : [Categories -> Scores]]

\* flagged recomputed from the scores instead of taken from the backend
moderate_content_Recomputed(response) ==
  [flagged |-> \E x \in Categories : response.category_scores[x] > ModerationThreshold,
   categories |-> [c \in {x \in Categories : response.category_scores[x] > ModerationThreshold}
                     |-> response.category_scores[c]]]

moderate_content(response) ==
  [flagged |-> response.flagged,
   categories |-> [c \in {x \in Categories : response.category_scores[x] > ModerationThreshold}
                     |-> response.category_scores[c]]]

\* ------------------------------------------------------- validate_input
InitialDetails(t) ==
  [pii_detected |-> FALSE, harmful_content |-> FALSE, length_exceeded |-> FALSE,
   pii_findings |-> <<>>, moderation_flags |-> [c \in {} |-> 0],
   redacted_text |-> t]

LayerEnabled(l) ==
  CASE l = "LENGTH_CHECK" -> TRUE
    [] l = "PRIMARY_PII"  -> self.use_google_dlp
    [] l = "BACKUP_PII"   -> self.use_presidio
    [] l = "MODERATION"   -> self.use_openai_moderation

\* Falling through layer l: the next layer whose `if self.use_...` holds, or
\* the final `return True, text, details`.
NextLayer(l) ==
  LET later == {i \in (LayerIndex(l) + 1)..Len(Layers) : LayerEnabled(Layers[i])}
  IN  IF later = {} THEN "END"
      ELSE Layers[CHOOSE i \in later : \A j \in later : i <= j]

Outcome(is_safe, processed_text, d) ==
  [is_safe |-> is_safe, processed_text |-> processed_text, details |-> d]

Blocked_StillSafe(processed_text, d) == Outcome(TRUE, processed_text, d)

Blocked(processed_text, d) == Outcome(FALSE, processed_text, d)

Passed(processed_text, d) == Outcome(TRUE, processed_text, d)

\* `return r` of validate_input.
Return(r) ==
  /\ result' = <<r>>
  /\ pc' = IF r.is_safe THEN "PASSED" ELSE "BLOCKED"

\* Layer l is left without a return: the next enabled layer runs, or the
\* run passes.
FallThrough(l, d) ==
  IF NextLayer(l) = "END"
  THEN Return(Passed(text, d))
  ELSE /\ pc' = NextLayer(l)
       /\ result' = result

\* A backend call raises: validate_input has no handler, the exception
\* leaves it and nothing is returned.
Raise(call) ==
  /\ pc' = "RAISED"
  /\ raised' = call
  /\ result' = result

RedactionIdle ==
  /\ input = <<>>
  /\ san = <<>>
  /\ ci_pc = "IDLE"
  /\ ci_result = <<>>
  /\ mod_input = <<>>
  /\ mod_flagged = <<>>
  /\ outputs = <<>>
  /\ aws_response = <<>>

Init ==
  /\ prog = "validate_input"
  /\ RedactionIdle
  /\ self \in [use_google_dlp : BOOLEAN, use_presidio : BOOLEAN,
               use_openai_moderation : BOOLEAN]
  /\ text \in Texts
  /\ max_length \in MaxLengths
  /\ block_on_pii \in BOOLEAN
  /\ block_on_harmful \in BOOLEAN
  /\ details = InitialDetails(text)
  /\ pc = "LENGTH_CHECK"
  /\ result = <<>>
  /\ calls = <<>>
  /\ entered = <<>>
  /\ mod_response = <<>>
  /\ raised = "none"

\* details["pii_findings"] = more, instead of .extend(more)
extend_Overwrite(findings, more) == more

\* details["pii_findings"].extend(more)
extend(findings, more) == findings \o more

LengthExceeded_AtLimit(t, limit) == Len(t) >= limit

LengthExceeded(t, limit) == Len(t) > limit

LengthBlocks_WrongFlag(exceeded) == exceeded /\ block_on_harmful

LengthBlocks(exceeded) == exceeded /\ block_on_pii

LengthCheck ==
  /\ pc = "LENGTH_CHECK"
  /\ entered' = Append(entered, "LENGTH_CHECK")
  /\ LET exceeded == LengthExceeded(text, max_length)
         d == IF exceeded THEN [details EXCEPT !.length_exceeded = TRUE] ELSE details
     IN  /\ details' = d
         /\ IF LengthBlocks(exceeded)
            THEN Return(Blocked(text, d))
            ELSE FallThrough("LENGTH_CHECK", d)
  /\ UNCHANGED <<self, text, max_length, block_on_pii, block_on_harmful, calls,
                 mod_response, raised>>
  /\ UNCHANGED <<prog, rvars>>

PrimaryBlocks_WrongFlag(has_pii) == block_on_harmful /\ has_pii

PrimaryBlocks(has_pii) == block_on_pii /\ has_pii

PrimaryPII ==
  /\ pc = "PRIMARY_PII"
  /\ entered' = Append(entered, "PRIMARY_PII")
  /\ \E outcome \in {"ok", "detect_raises", "redact_raises"} :
       LET pii_result == detect_pii_dlp(text)
           d1 == [details EXCEPT !.pii_detected = pii_result.has_pii,
                                 !.pii_findings = extend(@, pii_result.findings)]
           d2 == [d1 EXCEPT !.redacted_text = redact_pii_dlp(text)]
       IN  IF outcome = "detect_raises"
           THEN /\ calls' = Append(calls, "dlp.inspect_content")
                /\ details' = details
                /\ Raise("dlp.inspect_content")
           ELSE IF PrimaryBlocks(pii_result.has_pii)
           THEN /\ calls' = calls \o <<"dlp.inspect_content", "dlp.deidentify_content">>
                /\ IF outcome = "redact_raises"
                   THEN /\ details' = d1
                        /\ Raise("dlp.deidentify_content")
                   ELSE /\ details' = d2
                        /\ Return(Blocked(d2.redacted_text, d2))
                        /\ raised' = raised
           ELSE /\ outcome = "ok"
                /\ calls' = Append(calls, "dlp.inspect_content")
                /\ details' = d1
                /\ FallThrough("PRIMARY_PII", d1)
                /\ raised' = raised
  /\ UNCHANGED <<self, text, max_length, block_on_pii, block_on_harmful, mod_response>>
  /\ UNCHANGED <<prog, rvars>>

BackupBlocks(has_pii) == has_pii /\ block_on_pii

BackupPII ==
  /\ pc = "BACKUP_PII"
  /\ entered' = Append(entered, "BACKUP_PII")
  /\ \E outcome \in {"ok", "detect_raises", "redact_raises"} :
       LET presidio_result == detect_pii_presidio(text)
           d1 == IF presidio_result["has_pii"]
                 THEN [details EXCEPT !.pii_detected = TRUE,
                                      !.pii_findings = extend(@, presidio_result.findings)]
                 ELSE details
           d2 == [d1 EXCEPT !.redacted_text = redact_pii_presidio(text)]
       IN  IF outcome = "detect_raises"
           THEN /\ calls' = Append(calls, "presidio.analyze")
                /\ details' = details
                /\ Raise("presidio.analyze")
           ELSE IF BackupBlocks(presidio_result.has_pii)
           THEN /\ calls' = calls \o <<"presidio.analyze", "presidio.analyze", "presidio.anonymize">>
                /\ IF outcome = "redact_raises"
                   THEN /\ details' = d1
                        /\ Raise("presidio.anonymize")
                   ELSE /\ details' = d2
                        /\ Return(Blocked(d2.redacted_text, d2))
                        /\ raised' = raised
           ELSE /\ outcome = "ok"
                /\ calls' = Append(calls, "presidio.analyze")
                /\ details' = d1
                /\ FallThrough("BACKUP_PII", d1)
                /\ raised' = raised
  /\ UNCHANGED <<self, text, max_length, block_on_pii, block_on_harmful, mod_response>>
  /\ UNCHANGED <<prog, rvars>>

\* `if moderation_result["flagged"]`, block_on_harmful not consulted
ModerationBlocks_AnyFlag(flagged) == flagged

ModerationBlocks(flagged) == block_on_harmful /\ flagged

Moderation ==
  /\ pc = "MODERATION"
  /\ entered' = Append(entered, "MODERATION")
  /\ calls' = Append(calls, "openai.moderations.create")
  /\ \/ /\ Raise("openai.moderations.create")
        /\ UNCHANGED <<details, mod_response>>
     \/ \E response \in ModerationResponses :
          LET moderation_result == moderate_content(response)
              d == [details EXCEPT !.harmful_content = moderation_result.flagged,
                                   !.moderation_flags = moderation_result.categories]
          IN  /\ mod_response' = <<response>>
              /\ details' = d
              /\ raised' = raised
              /\ IF ModerationBlocks(moderation_result.flagged)
                 THEN Return(Blocked(text, d))
                 ELSE FallThrough("MODERATION", d)
  /\ UNCHANGED <<self, text, max_length, block_on_pii, block_on_harmful>>
  /\ UNCHANGED <<prog, rvars>>

\* ================================================================ texts
\* Character classes of EMAIL_PATTERN, over the characters that occur here.
Letters == {"a", "E", "M", "A", "I", "L", "R", "D", "C", "T"}

LocalChars == Letters \cup {".", "_", "%", "+", "-"}

DomainChars == Letters \cup {".", "-"}

TldChars == Letters \cup {"|"}

WordChars == Letters \cup {"_"}

\* An input text is a concatenation of at most MaxPieces pieces: single
\* characters, or a whole address.
Pieces == {<<"a">>, <<"@">>, <<".">>, <<" ">>, <<"|">>,
           <<"a", "@", "a", ".", "a", "a">>}

RECURSIVE Concat(_)
Concat(ps) == IF ps = <<>> THEN <<>> ELSE Head(ps) \o Concat(Tail(ps))

CharTexts == {Concat(ps) : ps \in UNION {[1..n -> Pieces] : n \in 0..MaxPieces}}

\* ------------------------------------------------------ EMAIL_PATTERN
IsWord(t, i) == i \in 1..Len(t) /\ t[i] \in WordChars

\* \b between the characters i-1 and i.
Boundary(t, i) == IsWord(t, i - 1) # IsWord(t, i)

\* First position from i on whose character is outside S (Len(t)+1 if none).
RunEnd(t, i, S) ==
  CHOOSE j \in i..(Len(t) + 1) :
    /\ j = Len(t) + 1 \/ t[j] \notin S
    /\ \A k \in i..(j - 1) : t[k] \in S

\* re.match of EMAIL_PATTERN at position s: the position after the match,
\* or 0.  The greedy local part must end at "@"; the engine then takes the
\* longest domain that is followed by "." and, for it, the longest run of
\* two or more TLD characters that ends at a \b.
MatchEnd(t, s) ==
  IF ~Boundary(t, s) THEN 0
  ELSE LET at == RunEnd(t, s, LocalChars)
       IN  IF at = s \/ at > Len(t) \/ t[at] # "@" THEN 0
           ELSE LET dEnd == RunEnd(t, at + 1, DomainChars)
                    ends(p) == {e \in (p + 3)..RunEnd(t, p + 1, TldChars) : Boundary(t, e)}
                    dots == {p \in (at + 2)..(dEnd - 1) : t[p] = "." /\ ends(p) # {}}
                IN  IF dots = {} THEN 0
                    ELSE LET p == CHOOSE x \in dots : \A y \in dots : y <= x
                         IN  CHOOSE e \in ends(p) : \A f \in ends(p) : f <= e

re_search(t) == \E s \in 1..Len(t) : MatchEnd(t, s) # 0

\* re.sub from position pos on: leftmost matches, not overlapping, each
\* replaced by repl; \b still looks at the characters of t.
RECURSIVE re_sub(_, _, _)
re_sub(t, pos, repl) ==
  IF pos > Len(t) THEN <<>>
  ELSE LET e == MatchEnd(t, pos)
       IN  IF e # 0 THEN repl \o re_sub(t, e, repl)
           ELSE <<t[pos]>> \o re_sub(t, pos + 1, repl)

\* ------------------------------------------- SafetyPipeline.check_input
EmailPlaceholder ==
  <<"[", "E", "M", "A", "I", "L", "_", "R", "E", "D", "A", "C", "T", "E", "D", "]">>

\* re.sub(..., count=1): only the leftmost match is replaced
RECURSIVE re_sub_first(_, _, _)
re_sub_first(t, pos, repl) ==
  IF pos > Len(t) THEN <<>>
  ELSE LET e == MatchEnd(t, pos)
       IN  IF e # 0 THEN repl \o SubSeq(t, e, Len(t))
           ELSE <<t[pos]>> \o re_sub_first(t, pos + 1, repl)

sanitize_FirstOnly(t) == IF re_search(t) THEN re_sub_first(t, 1, EmailPlaceholder) ELSE t

\* Step 1 of check_input.
sanitize(t) == IF re_search(t) THEN re_sub(t, 1, EmailPlaceholder) ELSE t

moderation_input_Raw(raw, sanitized) == raw

\* The argument of client.moderations.create in check_input.
moderation_input(raw, sanitized) == sanitized

CheckInputResult(flagged, t) ==
  IF flagged
  THEN [is_safe |-> FALSE, text |-> t, meta |-> "content_policy_violation"]
  ELSE [is_safe |-> TRUE, text |-> t, meta |-> "none"]

InitRedaction ==
  /\ prog \in {"check_input", "redact_pii"}
  /\ input \in CharTexts
  /\ san = input
  /\ ci_pc = IF prog = "check_input" THEN "SANITIZE" ELSE "CALL"
  /\ ci_result = <<>>
  /\ mod_input = <<>>
  /\ mod_flagged = <<>>
  /\ outputs = <<>>
  /\ aws_response = <<>>
  /\ self = [use_google_dlp |-> FALSE, use_presidio |-> FALSE,
             use_openai_moderation |-> FALSE]
  /\ text = <<>>
  /\ max_length = 0
  /\ block_on_pii = FALSE
  /\ block_on_harmful = FALSE
  /\ details = InitialDetails(<<>>)
  /\ pc = "IDLE"
  /\ result = <<>>
  /\ calls = <<>>
  /\ entered = <<>>
  /\ mod_response = <<>>
  /\ raised = "none"

Sanitize ==
  /\ prog = "check_input"
  /\ ci_pc = "SANITIZE"
  /\ san' = sanitize(input)
  /\ ci_pc' = "MODERATE"
  /\ UNCHANGED <<prog, input, ci_result, mod_input, mod_flagged, outputs, aws_response, pvars>>

ModerateInput ==
  /\ prog = "check_input"
  /\ ci_pc = "MODERATE"
  /\ mod_input' = <<moderation_input(input, san)>>
  /\ \/ /\ ci_pc' = "RAISED"
        /\ UNCHANGED <<ci_result, mod_flagged, outputs>>
     \/ \E flagged \in BOOLEAN :
          /\ mod_flagged' = <<flagged>>
          /\ ci_result' = <<CheckInputResult(flagged, san)>>
          /\ outputs' = Append(outputs, san)
          /\ ci_pc' = "RETURNED"
  /\ UNCHANGED <<prog, input, san, aws_response, pvars>>

\* The caller hands the returned text to check_input again.
CheckInputAgain ==
  /\ prog = "check_input"
  /\ ci_pc = "RETURNED"
  /\ Len(outputs) < 2
  /\ input' = ci_result[1].text
  /\ san' = ci_result[1].text
  /\ ci_pc' = "SANITIZE"
  /\ ci_result' = <<>>
  /\ mod_input' = <<>>
  /\ mod_flagged' = <<>>
  /\ UNCHANGED <<prog, outputs, aws_response, pvars>>

\* --------------------------------------------- AWSPIIDetector.redact_pii
\* client.detect_pii_entities: Comprehend is an external service; its answer
\* is taken to be the e-mail addresses of the text, with 0-based offsets,
\* EndOffset exclusive, in text order.
RECURSIVE EntitiesFrom(_, _)
EntitiesFrom(t, pos) ==
  IF pos > Len(t) THEN <<>>
  ELSE LET e == MatchEnd(t, pos)
       IN  IF e # 0
           THEN <<[Type |-> "EMAIL", BeginOffset |-> pos - 1, EndOffset |-> e - 1]>>
                  \o EntitiesFrom(t, e)
           ELSE EntitiesFrom(t, pos + 1)

detect_pii_entities(t) == EntitiesFrom(t, 1)

\* f"[{entity['Type']}]"
TypeTag(type) ==
  CASE type = "EMAIL" -> <<"[", "E", "M", "A", "I", "L", "]">>
    [] type = "NAME"  -> <<"[", "N", "A", "M", "E", "]">>
    [] OTHER          -> <<"[", "]">>

\* sorted(..., key=BeginOffset) without reverse=True
RECURSIVE SortedByBeginAsc(_)
SortedByBeginAsc(es) ==
  IF es = <<>> THEN <<>>
  ELSE LET i == CHOOSE k \in 1..Len(es) :
                  /\ \A j \in 1..Len(es) : es[k].BeginOffset <= es[j].BeginOffset
                  /\ \A j \in 1..(k - 1) : es[k].BeginOffset < es[j].BeginOffset
       IN  <<es[i]>> \o SortedByBeginAsc(SubSeq(es, 1, i - 1) \o SubSeq(es, i + 1, Len(es)))

\* sorted(..., key=BeginOffset, reverse=True)
RECURSIVE SortedByBeginDesc(_)
SortedByBeginDesc(es) ==
  IF es = <<>> THEN <<>>
  ELSE LET i == CHOOSE k \in 1..Len(es) :
                  /\ \A j \in 1..Len(es) : es[j].BeginOffset <= es[k].BeginOffset
                  /\ \A j \in 1..(k - 1) : es[j].BeginOffset < es[k].BeginOffset
       IN  <<es[i]>> \o SortedByBeginDesc(SubSeq(es, 1, i - 1) \o SubSeq(es, i + 1, Len(es)))

\* redacted_text[:start] + tag + redacted_text[end:]
ReplaceSpan(r, start, end, tag) == SubSeq(r, 1, start) \o tag \o SubSeq(r, end + 1, Len(r))

RECURSIVE RedactFromEnd(_, _)
RedactFromEnd(r, es) ==
  IF es = <<>> THEN r
  ELSE RedactFromEnd(ReplaceSpan(r, Head(es).BeginOffset, Head(es).EndOffset,
                                 TypeTag(Head(es).Type)),
                     Tail(es))

\* redact_pii from the sort on, given response['Entities']
redact_entities(t, entities) == RedactFromEnd(t, SortedByBeginDesc(entities))

redact_pii(t) == redact_entities(t, detect_pii_entities(t))

\* One call of redact_pii; the caller may hand the result to it again.
RedactPii ==
  /\ prog = "redact_pii"
  /\ ci_pc = "CALL"
  /\ Len(outputs) < 2
  /\ outputs' = Append(outputs, redact_pii(input))
  /\ input' = redact_pii(input)
  /\ UNCHANGED <<prog, san, ci_pc, ci_result, mod_input, mod_flagged, aws_response, pvars>>

NextRedaction == Sanitize \/ ModerateInput \/ CheckInputAgain \/ RedactPii

SpecRedaction == InitRedaction /\ [][NextRedaction]_vars

\* ------------------------------- redact_pii on any answer of the detector
SpanChars == {"a", "b"}

SpanTexts == UNION {[1..n -> SpanChars] : n \in 0..MaxSpanTextLen}

EntityTypes == {"EMAIL", "NAME"}

\* The entities a text of length n can hold: non-empty spans, 0-based,
\* EndOffset exclusive.
Entities(n) ==
  {x \in [Type : EntityTypes, BeginOffset : 0..(n - 1), EndOffset : 1..n] :
     x.BeginOffset < x.EndOffset}

Disjoint(x, y) == x.EndOffset <= y.BeginOffset \/ y.EndOffset <= x.BeginOffset

\* The answers of detect_pii_entities: at most MaxEntities entities, in any
\* order, their spans pairwise not overlapping.
Responses(t) ==
  {es \in UNION {[1..k -> Entities(Len(t))] : k \in 0..MaxEntities} :
     \A i, j \in 1..Len(es) : i # j => Disjoint(es[i], es[j])}

InitSpans ==
  /\ prog = "redact_pii"
  /\ input \in SpanTexts
  /\ san = input
  /\ ci_pc = "CALL_SPANS"
  /\ ci_result = <<>>
  /\ mod_input = <<>>
  /\ mod_flagged = <<>>
  /\ outputs = <<>>
  /\ aws_response = <<>>
  /\ self = [use_google_dlp |-> FALSE, use_presidio |-> FALSE,
             use_openai_moderation |-> FALSE]
  /\ text = <<>>
  /\ max_length = 0
  /\ block_on_pii = FALSE
  /\ block_on_harmful = FALSE
  /\ details = InitialDetails(<<>>)
  /\ pc = "IDLE"
  /\ result = <<>>
  /\ calls = <<>>
  /\ entered = <<>>
  /\ mod_response = <<>>
  /\ raised = "none"

\* One call of redact_pii: the detector answers, the entities are sorted
\* and replaced, the text is returned.
RedactPiiSpans ==
  /\ prog = "redact_pii"
  /\ ci_pc = "CALL_SPANS"
  /\ \E entities \in Responses(input) :
       /\ aws_response' = entities
       /\ outputs' = <<redact_entities(input, entities)>>
  /\ ci_pc' = "RETURNED"
  /\ UNCHANGED <<prog, input, san, ci_result, mod_input, mod_flagged, pvars>>

NextSpans == RedactPiiSpans

SpecSpans == InitSpans /\ [][NextSpans]_vars

\* ================================================================ runs
Next == LengthCheck \/ PrimaryPII \/ BackupPII \/ Moderation

Spec == Init /\ [][Next]_vars

\* =============================================================== claims
Range(q) == {q[i] : i \in 1..Len(q)}

Ended == pc \notin LayerSet

EmptyFlags == [c \in {} |-> 0]

\* The last layer whose body ran.
LastLayer == entered[Len(entered)]

HasPlaceholder(t) ==
  \E i \in 1..Len(t) :
    /\ i + Len(EmailPlaceholder) - 1 <= Len(t)
    /\ SubSeq(t, i, i + Len(EmailPlaceholder) - 1) = EmailPlaceholder

\* C1: a text within max_length on which every enabled PII layer reports no
\* finding and the classifier answers flagged=false is returned unchanged with
\* is_safe=true, whatever layers are enabled and whatever the blocking flags.
C1_CleanTextPasses ==
  ( /\ Ended
    /\ raised = "none"
    /\ Len(text) <= max_length
    /\ (self.use_google_dlp => ~detect_pii_dlp(text).has_pii)
    /\ (self.use_presidio => ~detect_pii_presidio(text).has_pii)
    /\ (self.use_openai_moderation => mod_response # <<>> /\ ~mod_response[1].flagged) )
  => /\ pc = "PASSED"
     /\ result[1].is_safe
     /\ result[1].processed_text = text

C1_Witness ==
  /\ pc = "PASSED"
  /\ Len(text) = max_length
  /\ self.use_google_dlp /\ self.use_presidio /\ self.use_openai_moderation
  /\ block_on_pii /\ block_on_harmful
  /\ details.pii_findings = <<>>
  /\ ~mod_response[1].flagged

\* C2: a text longer than max_length with block_on_pii ends at the length
\* check: is_safe=false, the text unmodified, length_exceeded set and nothing
\* else recorded; no detector, redactor or classifier was called.
C2_LengthBlockEndsRun ==
  (Len(text) > max_length /\ block_on_pii) =>
     /\ calls = <<>>
     /\ mod_response = <<>>
     /\ Ended =>
          /\ pc = "BLOCKED"
          /\ entered = <<"LENGTH_CHECK">>
          /\ result = <<[is_safe |-> FALSE, processed_text |-> text,
                         details |-> [InitialDetails(text) EXCEPT !.length_exceeded = TRUE]]>>

C2_Witness ==
  /\ pc = "BLOCKED"
  /\ Len(text) > max_length
  /\ block_on_pii
  /\ self.use_google_dlp /\ self.use_presidio /\ self.use_openai_moderation
  /\ detect_pii_dlp(text).has_pii

\* The primary layer ran, its detector answered with a finding, and
\* block_on_pii is set.
PrimaryFound ==
  /\ self.use_google_dlp
  /\ block_on_pii
  /\ "PRIMARY_PII" \in Range(entered)
  /\ raised # "dlp.inspect_content"
  /\ detect_pii_dlp(text).has_pii

\* C3: when the primary PII layer finds PII and block_on_pii is set, the run
\* ends at that layer: the backup layer and the classifier are never called,
\* and the returned details have harmful_content false and no moderation flags.
C3_PrimaryBlockPrecedes ==
  PrimaryFound =>
     /\ pc \in {"BLOCKED", "RAISED"}
     /\ LastLayer = "PRIMARY_PII"
     /\ Range(calls) \subseteq {"dlp.inspect_content", "dlp.deidentify_content"}
     /\ mod_response = <<>>
     /\ pc = "BLOCKED" =>
          /\ ~result[1].is_safe
          /\ result[1].details.harmful_content = FALSE
          /\ result[1].details.moderation_flags = EmptyFlags

C3_Witness ==
  /\ PrimaryFound
  /\ pc = "BLOCKED"
  /\ self.use_presidio /\ self.use_openai_moderation
  /\ block_on_harmful
  /\ detect_pii_presidio(text).has_pii

\* The category a layer's detector gives a token of the returned text.
LayerType(layer, tok) ==
  IF layer = "PRIMARY_PII" THEN DLPInfoType(tok) ELSE PresidioEntityType(tok)

PIILayerBlocked == pc = "BLOCKED" /\ LastLayer \in {"PRIMARY_PII", "BACKUP_PII"}

\* C4: when a PII layer blocks, processed_text is that layer's redaction of
\* the original text and no category among the findings the layer recorded is
\* still present in processed_text.
C4_BlockingLayerRedactsItsFindings ==
  PIILayerBlocked =>
     LET out == result[1].processed_text
         found == result[1].details.pii_findings
     IN  /\ out = IF LastLayer = "PRIMARY_PII" THEN redact_pii_dlp(text)
                  ELSE redact_pii_presidio(text)
         /\ \A k \in 1..Len(found) : \A i \in 1..Len(out) :
              LayerType(LastLayer, out[i]) # found[k].type

\* What does hold of C4: the returned text is the layer's redaction, and the
\* backup layer leaves none of its findings in it.
C4_RedactorOutputReturned ==
  PIILayerBlocked =>
     LET out == result[1].processed_text
         found == result[1].details.pii_findings
     IN  /\ out = IF LastLayer = "PRIMARY_PII" THEN redact_pii_dlp(text)
                  ELSE redact_pii_presidio(text)
         /\ out = result[1].details.redacted_text
         /\ LastLayer = "BACKUP_PII" =>
              \A k \in 1..Len(found) : \A i \in 1..Len(out) :
                LayerType(LastLayer, out[i]) # found[k].type

\* C5: a backend call that fails ends the run with is_safe=false and a
\* backend-failure reason.
C5_BackendFailureBlocks ==
  raised # "none" =>
     /\ pc = "BLOCKED"
     /\ result # <<>>
     /\ ~result[1].is_safe
     /\ "reason" \in DOMAIN result[1].details

\* What does hold of C5: a run in which a backend call failed never returns
\* anything, so never is_safe=true.
C5_FailureReturnsNothing ==
  raised # "none" => pc = "RAISED" /\ result = <<>>

\* The classifier answered flagged=true and block_on_harmful is set.
ClassifierFlagged ==
  /\ mod_response # <<>>
  /\ mod_response[1].flagged
  /\ block_on_harmful

\* C6: when no PII layer ends the run and the classifier answers flagged=true
\* with block_on_harmful, the run returns is_safe=false and the unmodified
\* text; harmful_content is the backend's flagged value and moderation_flags
\* holds exactly the categories scoring above 0.5, each with its score.
C6_HarmfulBlocksUnmodified ==
  ClassifierFlagged =>
     /\ pc = "BLOCKED"
     /\ ~result[1].is_safe
     /\ result[1].processed_text = text
     /\ result[1].details.redacted_text = text
     /\ result[1].details.harmful_content = mod_response[1].flagged
     /\ DOMAIN result[1].details.moderation_flags
          = {c \in Categories : mod_response[1].category_scores[c] > 5}
     /\ \A c \in DOMAIN result[1].details.moderation_flags :
          result[1].details.moderation_flags[c] = mod_response[1].category_scores[c]

C6_Witness ==
  /\ ClassifierFlagged
  /\ pc = "BLOCKED"
  /\ mod_response[1].category_scores = [c \in Categories |-> 5]
  /\ result[1].details.pii_detected
  /\ self.use_google_dlp /\ self.use_presidio

\* C7: redaction implies blocking: a run that returns a text other than its
\* input, or records one in redacted_text, returns is_safe=false; a run that
\* returns is_safe=true returns exactly the input.
C7_RedactionImpliesBlocking ==
  /\ (details.redacted_text # text) => pc \in {"BLOCKED", "RAISED"}
  /\ result # <<>> =>
       /\ (result[1].processed_text # text \/ result[1].details.redacted_text # text)
            => ~result[1].is_safe
       /\ result[1].is_safe =>
            result[1].processed_text = text /\ result[1].details.redacted_text = text

C7_Witness ==
  /\ pc = "BLOCKED"
  /\ result[1].processed_text # text
  /\ LastLayer = "BACKUP_PII"

\* C8: check_input replaces e-mail matches by [EMAIL_REDACTED] before the
\* classifier is called, gives the classifier the sanitized text, returns
\* is_safe=false exactly when the classifier flags it, and returns the
\* sanitized text in both outcomes.
C8_PrePassSanitization ==
  (prog = "check_input" /\ mod_input # <<>>) =>
     /\ ~re_search(mod_input[1])
     /\ re_search(input) => HasPlaceholder(mod_input[1])
     /\ ~re_search(input) => mod_input[1] = input
     /\ ci_pc = "RETURNED" =>
          /\ ci_result[1].is_safe = ~mod_flagged[1]
          /\ ci_result[1].text = mod_input[1]

C8_Witness ==
  /\ prog = "check_input"
  /\ ci_pc = "RETURNED"
  /\ Len(outputs) = 1
  /\ re_search(input)
  /\ ci_result[1].is_safe

C10_ForwardOnlyToVerdict ==
  /\ \A i, j \in 1..Len(entered) : i < j => LayerIndex(entered[i]) < LayerIndex(entered[j])
  /\ \A i \in 1..Len(entered) : LayerEnabled(entered[i])
  /\ pc \in LayerSet => \A i \in 1..Len(entered) : LayerIndex(entered[i]) < LayerIndex(pc)
  /\ ~self.use_google_dlp =>
       Range(calls) \cap {"dlp.inspect_content", "dlp.deidentify_content"} = {}
  /\ ~self.use_presidio =>
       Range(calls) \cap {"presidio.analyze", "presidio.anonymize"} = {}
  /\ ~self.use_openai_moderation =>
       /\ "openai.moderations.create" \notin Range(calls)
       /\ details.harmful_content = FALSE
       /\ details.moderation_flags = EmptyFlags
  /\ (~self.use_google_dlp /\ ~self.use_presidio) =>
       /\ details.pii_detected = FALSE
       /\ details.pii_findings = <<>>
       /\ details.redacted_text = text
  /\ pc \in LayerSet \cup {"PASSED", "BLOCKED"}
  /\ (pc = "PASSED") = (result # <<>> /\ result[1].is_safe)
  /\ (pc = "BLOCKED") = (result # <<>> /\ ~result[1].is_safe)

\* What does hold of C10: the same, with the run also allowed to end by the
\* exception of a backend call; and no step follows the end of a run.
C10_ForwardOnlyOrRaised ==
  /\ \A i, j \in 1..Len(entered) : i < j => LayerIndex(entered[i]) < LayerIndex(entered[j])
  /\ \A i \in 1..Len(entered) : LayerEnabled(entered[i])
  /\ pc \in LayerSet => \A i \in 1..Len(entered) : LayerIndex(entered[i]) < LayerIndex(pc)
  /\ pc \in LayerSet \cup {"PASSED", "BLOCKED", "RAISED"}
  /\ (pc = "RAISED") = (raised # "none")

AtLayer == pc \in LayerSet

C10_NoStepAfterEnd == [][AtLayer]_vars

\* A PII layer ran when its body was entered and its detector answered.
PrimaryRan == "PRIMARY_PII" \in Range(entered) /\ raised # "dlp.inspect_content"

BackupRan == "BACKUP_PII" \in Range(entered) /\ raised # "presidio.analyze"

\* C11: at every return, details.pii_findings is the findings of the primary
\* layer (if it ran) followed by those of the backup layer (if it ran), the
\* backup layer appends to the primary layer's findings, and pii_detected is
\* true exactly when pii_findings is non-empty.
C11_FindingsCumulative ==
  result # <<>> =>
     LET d == result[1].details
         primary == IF PrimaryRan THEN detect_pii_dlp(text).findings ELSE <<>>
         backup == IF BackupRan THEN detect_pii_presidio(text).findings ELSE <<>>
     IN  /\ d.pii_findings = primary \o backup
         /\ SubSeq(d.pii_findings, 1, Len(primary)) = primary
         /\ d.pii_detected = (d.pii_findings # <<>>)

C11_Witness ==
  /\ result # <<>>
  /\ PrimaryRan /\ BackupRan
  /\ detect_pii_dlp(text).findings # <<>>
  /\ detect_pii_presidio(text).findings # <<>>
  /\ Len(detect_pii_dlp(text).findings) # Len(detect_pii_presidio(text).findings)
  /\ Len(result[1].details.pii_findings) >= 3

\* C13: at every return the verdict is decided by the recorded flags and the
\* blocking policy: is_safe is false exactly when block_on_pii holds with
\* length_exceeded or pii_detected, or block_on_harmful holds with
\* harmful_content.  So with both flags set a safe verdict has all three
\* flags false, and with neither set the verdict is safe with the text
\* unchanged.
C13_VerdictFromFlags ==
  result # <<>> =>
     LET d == result[1].details
     IN  /\ (~result[1].is_safe)
              = ( \/ block_on_pii /\ (d.length_exceeded \/ d.pii_detected)
                  \/ block_on_harmful /\ d.harmful_content )
         /\ (block_on_pii /\ block_on_harmful /\ result[1].is_safe)
              => ~d.length_exceeded /\ ~d.pii_detected /\ ~d.harmful_content
         /\ (~block_on_pii /\ ~block_on_harmful)
              => result[1].is_safe /\ result[1].processed_text = text

C13_Witness ==
  /\ pc = "PASSED"
  /\ ~block_on_pii /\ ~block_on_harmful
  /\ result[1].details.length_exceeded
  /\ result[1].details.pii_detected
  /\ result[1].details.harmful_content

\* The text with every span of es replaced at once, read from offset pos on.
RECURSIVE ReplacedAtOnce(_, _, _)
ReplacedAtOnce(t, pos, es) ==
  IF pos >= Len(t) THEN <<>>
  ELSE IF \E k \in 1..Len(es) : es[k].BeginOffset = pos
  THEN LET k == CHOOSE x \in 1..Len(es) : es[x].BeginOffset = pos
       IN  TypeTag(es[k].Type) \o ReplacedAtOnce(t, es[k].EndOffset, es)
  ELSE <<t[pos + 1]>> \o ReplacedAtOnce(t, pos + 1, es)

SpansRedacted == prog = "redact_pii" /\ ci_pc = "RETURNED" /\ Len(outputs) = 1

\* C12: redact_pii replaces in descending order of start offset, so for spans
\* that do not overlap its result is the text with every reported span
\* [start, end) replaced at once by [<TYPE>], the rest unchanged and in order.
C12_DescendingEqualsAtOnce ==
  SpansRedacted =>
     LET sorted == SortedByBeginDesc(aws_response)
     IN  /\ \A i, j \in 1..Len(sorted) : i < j => sorted[i].BeginOffset > sorted[j].BeginOffset
         /\ outputs[1] = ReplacedAtOnce(input, 0, aws_response)

C12_Witness ==
  /\ SpansRedacted
  /\ Len(aws_response) = 2
  /\ aws_response[1].BeginOffset < aws_response[2].BeginOffset
  /\ aws_response[1].Type # aws_response[2].Type
  /\ aws_response[1].BeginOffset > 0
  /\ aws_response[2].EndOffset < Len(input)

====
